---- MODULE Spec2Model ----
(***************************************************************************)
(* Model of static/public/login/script.js: the login form's submit         *)
(* handler, which posts the credentials, extracts a token, resolves the    *)
(* user's profile over a list of candidate endpoints, persists both in     *)
(* localStorage and redirects with the session in the query string.        *)
(*                                                                         *)
(* One invocation of the async submit handler is a "slot"; its position    *)
(* (pc) is the await point at which it is suspended, or the statement at   *)
(* which it ended.  Everything between two await points runs to completion *)
(* on the event loop and is one action.  The handler's await of            *)
(* fetchUserProfile (line 138) is an await point of its own: the resolver  *)
(* returns in one action and the handler is resumed in a later one.        *)
(***************************************************************************)
EXTENDS Integers, Sequences, FiniteSets, TLC

(***************************************************************************)
(* JavaScript values.  A value is a record tagged with its typeof; an      *)
(* object carries its own properties in insertion order.                   *)
(***************************************************************************)
Undef == [t |-> "undefined"]
Null == [t |-> "null"]
Str(s) == [t |-> "string", s |-> s]
Num(n) == [t |-> "number", n |-> n]
Obj(props) == [t |-> "object", props |-> props]
Prop(k, v) == [k |-> k, v |-> v]
EmptyObj == Obj(<<>>)

\* The rejection of res.json() on a body that is not JSON.
Malformed == [t |-> "malformed"]

\* ToBoolean: what `||`, `!` and `if` test.
Truthy(v) ==
  CASE v.t = "undefined" -> FALSE
    [] v.t = "null" -> FALSE
    [] v.t = "string" -> v.s # ""
    [] v.t = "number" -> v.n # 0
    [] OTHER -> TRUE

Nullish(v) == v.t \in {"undefined", "null"}

\* a || b
Or(a, b) == IF Truthy(a) THEN a ELSE b

\* a ?? b
Coalesce(a, b) == IF Nullish(a) THEN b ELSE a

HasKey(o, key) == o.t = "object" /\ \E i \in 1..Len(o.props) : o.props[i].k = key

\* o.key on a value that is not null or undefined: an own property of an
\* object, undefined on a missing key and on a number.
Get(o, key) ==
  IF HasKey(o, key)
  THEN o.props[CHOOSE i \in 1..Len(o.props) : o.props[i].k = key].v
  ELSE Undef

\* o?.key
OptGet(o, key) == IF Nullish(o) THEN Undef ELSE Get(o, key)

Digits == <<"0", "1", "2", "3", "4", "5", "6", "7", "8", "9">>

RECURSIVE NumText(_)
NumText(n) ==
  IF n < 10 THEN Digits[n + 1] ELSE NumText(n \div 10) \o Digits[(n % 10) + 1]

\* String(v): the conversion applied by template literals, by
\* localStorage.setItem, by URLSearchParams and by textContent.
ToText(v) ==
  CASE v.t = "string" -> v.s
    [] v.t = "number" -> NumText(v.n)
    [] v.t = "null" -> "null"
    [] v.t = "undefined" -> "undefined"
    [] OTHER -> "[object Object]"

\* JSON.stringify(v) for a value that has a JSON text.  Properties whose
\* value is undefined are left out; the strings of the model need no escapes.
RECURSIVE Stringify(_)
RECURSIVE StringifyProps(_, _)
StringifyProps(props, first) ==
  IF props = <<>> THEN ""
  ELSE IF Head(props).v.t = "undefined" THEN StringifyProps(Tail(props), first)
  ELSE (IF first THEN "" ELSE ",")
         \o "\"" \o Head(props).k \o "\":" \o Stringify(Head(props).v)
         \o StringifyProps(Tail(props), FALSE)
Stringify(v) ==
  CASE v.t = "string" -> "\"" \o v.s \o "\""
    [] v.t = "number" -> NumText(v.n)
    [] v.t = "null" -> "null"
    [] OTHER -> "{" \o StringifyProps(v.props, TRUE) \o "}"

(***************************************************************************)
(* Configuration (script.js lines 8-14) and the messages shown.            *)
(***************************************************************************)
ENDPOINT_LOGIN == "/auth/login"
PROFILE_CANDIDATES == <<"/auth/me", "/auth/user", "/auth/profile">>
FRONT_REDIRECT == "http://127.0.0.1:3000/"
BROWSER_URL == "http://127.0.0.1:8000"

MsgDefault == "Error al iniciar sesión."
MsgCredentials == "Credenciales inválidas."
MsgNoToken == "No se recibió el token de acceso."
MsgConnect == "No se pudo conectar con el servidor."

(***************************************************************************)
(* pickToken (lines 33-36).                                                *)
(***************************************************************************)
\* A slip in the priority order: jwt is looked at before access_token.
pickTokenJwtFirst(data) ==
  Or(Or(Or(OptGet(data, "jwt"), OptGet(data, "access_token")),
        OptGet(data, "token")), Null)

\* A slip that forgets the last alternative.
pickTokenNoTokenField(data) ==
  Or(Or(OptGet(data, "access_token"), OptGet(data, "jwt")), Null)

\* A slip that reads token_type where it means token.
pickTokenWrongField(data) ==
  Or(Or(Or(OptGet(data, "access_token"), OptGet(data, "jwt")),
        OptGet(data, "token_type")), Null)

pickToken(data) ==
  Or(Or(Or(OptGet(data, "access_token"), OptGet(data, "jwt")),
        OptGet(data, "token")), Null)

(***************************************************************************)
(* The profile normalisation of fetchUserProfile (lines 61-66).            *)
(***************************************************************************)
\* Assignment of one property in an object literal or a spread: an existing
\* key keeps its place and takes the new value, a new key is appended.
SetProp(props, k, v) ==
  IF \E i \in 1..Len(props) : props[i].k = k
  THEN [i \in 1..Len(props) |-> IF props[i].k = k THEN Prop(k, v) ELSE props[i]]
  ELSE Append(props, Prop(k, v))

RECURSIVE SpreadProps(_, _)
SpreadProps(props, src) ==
  IF src = <<>> THEN props
  ELSE SpreadProps(SetProp(props, Head(src).k, Head(src).v), Tail(src))

\* {...target, ...src}: the own properties of an object; a number, null or
\* undefined spreads to nothing.
Spread(props, src) == IF src.t = "object" THEN SpreadProps(props, src.props) ELSE props

\* data.user_id on null or undefined throws a TypeError.
NormalizeThrows(data) == Nullish(data)

\* A normaliser written as a renaming: the canonical fields are taken from
\* the other names only and the rest of the profile is not kept.
NormalizeRenamesOnly(data) ==
  Obj(<< Prop("user_id", Coalesce(Get(data, "id"), Coalesce(Get(data, "userId"), Null))),
         Prop("username", Coalesce(Get(data, "user"), Coalesce(Get(data, "name"), Null))),
         Prop("email", Coalesce(Get(data, "email"), Null)) >>)

\* A normaliser that forgets the spread: only the canonical fields are kept.
NormalizeCanonicalOnly(data) ==
  Obj(<< Prop("user_id", Coalesce(Get(data, "user_id"),
                           Coalesce(Get(data, "id"),
                             Coalesce(Get(data, "userId"), Null)))),
         Prop("username", Coalesce(Get(data, "username"),
                            Coalesce(Get(data, "user"),
                              Coalesce(Get(data, "name"), Null)))),
         Prop("email", Coalesce(Get(data, "email"), Null)) >>)

Normalize(data) ==
  Obj(Spread(
    << Prop("user_id", Coalesce(Get(data, "user_id"),
                         Coalesce(Get(data, "id"),
                           Coalesce(Get(data, "userId"), Null)))),
       Prop("username", Coalesce(Get(data, "username"),
                          Coalesce(Get(data, "user"),
                            Coalesce(Get(data, "name"), Null)))),
       Prop("email", Coalesce(Get(data, "email"), Null)) >>,
    data))

(***************************************************************************)
(* State.                                                                  *)
(***************************************************************************)
\* The most submit-handler invocations suspended at the same time.
MaxInFlight == 2
Slots == 1..MaxInFlight

VARIABLES
  pc,            \* per invocation: the await point it is suspended at, or how it ended
  data,          \* per invocation: `data`, the decoded authentication body (line 126)
  token,         \* per invocation: `token` (line 127), the `jwt` of fetchUserProfile
  idx,           \* per invocation: position of fetchUserProfile's loop in PROFILE_CANDIDATES
  profile,       \* per invocation: `profile` (line 138)
  trace,         \* per invocation: what it has done to the outside, in order
  localStorage,  \* the two entries of window.localStorage; Null is a missing entry
  errorText,     \* errorBox.textContent
  href,          \* window.location.href as last assigned by this page
  arg,           \* argument of the function applied in the function specifications
  ret            \* its result

vars == <<pc, data, token, idx, profile, trace, localStorage, errorText, href, arg, ret>>
slotVars == <<pc, data, token, idx, profile, trace>>
fnVars == <<arg, ret>>

\* The page has not assigned window.location.href.
NotNavigated == [base |-> "", params |-> <<>>]

InFlight ==
  {"awaitLogin", "awaitErrBody", "awaitBody", "awaitCandidate", "awaitCandidateBody",
   "awaitProfile"}

\* What an invocation does to the outside.
FetchEv(path, auth) == [ev |-> "fetch", path |-> path, auth |-> auth]
ResponseEv(path, kind) == [ev |-> "response", path |-> path, kind |-> kind]
BodyEv(path, val) == [ev |-> "body", path |-> path, val |-> val]
SetItemEv(key, text, ok) == [ev |-> "setItem", key |-> key, text |-> text, ok |-> ok]
ShowErrorEv(text) == [ev |-> "showError", text |-> text]
RedirectEv(url) == [ev |-> "redirect", url |-> url]

(***************************************************************************)
(* Inputs: what the servers, the storage and the serializer may answer.    *)
(***************************************************************************)
ResponseKinds == {"reject", "notok", "ok"}

\* Bodies of a successful authentication response.
AuthBodies ==
  { Null,
    EmptyObj,
    Obj(<<Prop("token_type", Str("bearer"))>>),
    Obj(<<Prop("access_token", Str("T1")), Prop("token_type", Str("bearer"))>>),
    Obj(<<Prop("jwt", Str("T2"))>>),
    Obj(<<Prop("token", Str("T1"))>>),
    Obj(<<Prop("access_token", Str("")), Prop("jwt", Str("T2")), Prop("token", Str("T1"))>>),
    Obj(<<Prop("access_token", Num(7))>>),
    Obj(<<Prop("access_token", Null), Prop("jwt", Num(0))>>) }

\* Bodies of a rejected authentication response.
ErrBodies ==
  { Null,
    EmptyObj,
    Obj(<<Prop("detail", Str("Bad credentials"))>>),
    Obj(<<Prop("detail", Str(""))>>),
    Obj(<<Prop("detail", Null)>>),
    Obj(<<Prop("detail", Obj(<<Prop("msg", Str("field required"))>>))>>) }

\* Bodies of a successful profile response.
ProfileBodies ==
  { Null,
    EmptyObj,
    Obj(<<Prop("id", Num(7)), Prop("name", Str("Bob"))>>),
    Obj(<<Prop("user_id", Null), Prop("id", Num(7)), Prop("email", Str("a@b"))>>) }

(***************************************************************************)
(* showError / clearError (lines 19-30).  The error box and alert() are    *)
(* one sink: the text the user is shown.                                   *)
(***************************************************************************)
showError(msg) == ToText(Or(msg, Str(MsgDefault)))

(***************************************************************************)
(* saveSession (lines 39-46) applied to the storage `store`.  throwsJwt,   *)
(* throwsStringify and throwsUser say which of its three calls throws; the *)
(* catch ends the function at the first one that does.  The result is the  *)
(* storage afterwards and the setItem calls made.                          *)
(***************************************************************************)
\* A persister that removes the profile entry when it is given no profile.
saveSessionClearsProfile(store, jwt, user, throwsJwt, throwsStringify, throwsUser) ==
  IF Truthy(user)
  THEN [store |-> [store EXCEPT !.jwt = Str(ToText(jwt)), !.userdata = Str(Stringify(user))],
        evs |-> <<SetItemEv("jwt", ToText(jwt), TRUE),
                  SetItemEv("userdata", Stringify(user), TRUE)>>]
  ELSE [store |-> [store EXCEPT !.jwt = Str(ToText(jwt)), !.userdata = Null],
        evs |-> <<SetItemEv("jwt", ToText(jwt), TRUE)>>]

saveSession(store, jwt, user, throwsJwt, throwsStringify, throwsUser) ==
  LET first ==
        IF ~Truthy(jwt) THEN [store |-> store, evs |-> <<>>, thrown |-> FALSE]
        ELSE IF throwsJwt
          THEN [store |-> store,
                evs |-> <<SetItemEv("jwt", ToText(jwt), FALSE)>>, thrown |-> TRUE]
          ELSE [store |-> [store EXCEPT !.jwt = Str(ToText(jwt))],
                evs |-> <<SetItemEv("jwt", ToText(jwt), TRUE)>>, thrown |-> FALSE]
  IN IF first.thrown \/ ~Truthy(user) \/ throwsStringify
     THEN [store |-> first.store, evs |-> first.evs]
     ELSE IF throwsUser
       THEN [store |-> first.store,
             evs |-> Append(first.evs, SetItemEv("userdata", Stringify(user), FALSE))]
       ELSE [store |-> [first.store EXCEPT !.userdata = Str(Stringify(user))],
             evs |-> Append(first.evs, SetItemEv("userdata", Stringify(user), TRUE))]

(***************************************************************************)
(* redirectWithParams (lines 77-93): the URL assigned to location.href,    *)
(* as its base and its query parameters in order (URLSearchParams encodes  *)
(* each value reversibly; the parameters are kept decoded).                *)
(***************************************************************************)
\* A catch that forgets its assignment: userString stays as initialised.
redirectWithParamsNoFallback(jwt, user, throwsStringify) ==
  LET userString == IF throwsStringify THEN "" ELSE Stringify(Coalesce(user, EmptyObj))
  IN [base |-> FRONT_REDIRECT,
      params |-> << <<"jwt", ToText(jwt)>>,
                    <<"browser_url", BROWSER_URL>>,
                    <<"userdata", userString>> >>]

redirectWithParams(jwt, user, throwsStringify) ==
  LET userString == IF throwsStringify THEN "{}" ELSE Stringify(Coalesce(user, EmptyObj))
  IN [base |-> FRONT_REDIRECT,
      params |-> << <<"jwt", ToText(jwt)>>,
                    <<"browser_url", BROWSER_URL>>,
                    <<"userdata", userString>> >>]

\* The value of a query parameter of a URL; "" when the URL has none of that name.
Param(url, name) ==
  IF \E i \in 1..Len(url.params) : url.params[i][1] = name
  THEN url.params[CHOOSE i \in 1..Len(url.params) : url.params[i][1] = name][2]
  ELSE ""

(***************************************************************************)
(* The submit handler (lines 98-149), one action per stretch between two   *)
(* await points.  `a` is the invocation.                                   *)
(***************************************************************************)
Init ==
  /\ pc = [a \in Slots |-> "Idle"]
  /\ data = [a \in Slots |-> Undef]
  /\ token = [a \in Slots |-> Undef]
  /\ idx = [a \in Slots |-> 0]
  /\ profile = [a \in Slots |-> Undef]
  /\ trace = [a \in Slots |-> <<>>]
  /\ localStorage = [jwt |-> Null, userdata |-> Null]
  /\ errorText = ""
  /\ href = NotNavigated
  /\ arg = Undef
  /\ ret = Undef

\* Lines 99-114: a submit event starts an invocation, which clears the error
\* and posts the form.  An invocation that has ended leaves its slot free.
Submit(a) ==
  /\ pc[a] \notin InFlight
  /\ href = NotNavigated
  /\ pc' = [pc EXCEPT ![a] = "awaitLogin"]
  /\ data' = [data EXCEPT ![a] = Undef]
  /\ token' = [token EXCEPT ![a] = Undef]
  /\ idx' = [idx EXCEPT ![a] = 0]
  /\ profile' = [profile EXCEPT ![a] = Undef]
  /\ trace' = [trace EXCEPT ![a] = <<FetchEv(ENDPOINT_LOGIN, "")>>]
  /\ errorText' = ""
  /\ UNCHANGED <<localStorage, href, fnVars>>

\* A catch that shows the message of the other error branch.
CaughtWrongMessage(a, evs) ==
  /\ pc' = [pc EXCEPT ![a] = "NetworkError"]
  /\ errorText' = showError(Str(MsgCredentials))
  /\ trace' = [trace EXCEPT ![a] = @ \o evs \o <<ShowErrorEv(showError(Str(MsgCredentials)))>>]
  /\ UNCHANGED <<data, token, idx, profile, localStorage, href, fnVars>>

\* A catch that only logs the error.
CaughtSilent(a, evs) ==
  /\ pc' = [pc EXCEPT ![a] = "NetworkError"]
  /\ trace' = [trace EXCEPT ![a] = @ \o evs]
  /\ UNCHANGED <<data, token, idx, profile, localStorage, errorText, href, fnVars>>

\* Lines 145-148: the handler's catch.
Caught(a, evs) ==
  /\ pc' = [pc EXCEPT ![a] = "NetworkError"]
  /\ errorText' = showError(Str(MsgConnect))
  /\ trace' = [trace EXCEPT ![a] = @ \o evs \o <<ShowErrorEv(showError(Str(MsgConnect)))>>]
  /\ UNCHANGED <<data, token, idx, profile, localStorage, href, fnVars>>

\* Lines 107-116 and 126: the login call settles; on a response the handler
\* goes on to read its body.
LoginSettled(a) ==
  /\ pc[a] = "awaitLogin"
  /\ \E kind \in ResponseKinds :
       LET ev == <<ResponseEv(ENDPOINT_LOGIN, kind)>>
       IN IF kind = "reject" THEN Caught(a, ev)
          ELSE /\ pc' = [pc EXCEPT ![a] = IF kind = "ok" THEN "awaitBody" ELSE "awaitErrBody"]
               /\ trace' = [trace EXCEPT ![a] = @ \o ev]
               /\ UNCHANGED <<data, token, idx, profile, localStorage, errorText, href, fnVars>>

\* The message of lines 117-121 for a rejected login whose body read gave `err`.
ErrorMessage(err) ==
  IF err = Malformed THEN Str(MsgCredentials)
  ELSE Or(OptGet(err, "detail"), Str(MsgCredentials))

\* Lines 117-123: the body of a rejected login has been read, or not.
ErrBodySettled(a, bodies) ==
  /\ pc[a] = "awaitErrBody"
  /\ \E err \in bodies \cup {Malformed} :
       /\ pc' = [pc EXCEPT ![a] = "AuthFailed"]
       /\ errorText' = showError(ErrorMessage(err))
       /\ trace' = [trace EXCEPT ![a] =
                      @ \o <<BodyEv(ENDPOINT_LOGIN, err), ShowErrorEv(showError(ErrorMessage(err)))>>]
       /\ UNCHANGED <<data, token, idx, profile, localStorage, href, fnVars>>

\* A handler that redirects with the token it reads back from the storage.
FinishStoredToken(a, prof, evs, tJwt, tStr, tUser, tStr2) ==
  LET saved == IF Truthy(prof)
               THEN saveSession(localStorage, token[a], prof, tJwt, tStr, tUser)
               ELSE [store |-> localStorage, evs |-> <<>>]
      url == redirectWithParams(saved.store.jwt, Or(prof, EmptyObj), tStr2)
  IN /\ pc' = [pc EXCEPT ![a] = "Success"]
     /\ profile' = [profile EXCEPT ![a] = prof]
     /\ localStorage' = saved.store
     /\ href' = url
     /\ trace' = [trace EXCEPT ![a] = @ \o evs \o saved.evs \o <<RedirectEv(url)>>]
     /\ UNCHANGED <<data, token, idx, errorText, fnVars>>

\* A handler whose saveSession has no try/catch: a write that throws reaches
\* the handler's catch.
FinishThrowsOnStorage(a, prof, evs, tJwt, tStr, tUser, tStr2) ==
  LET saved == IF Truthy(prof)
               THEN saveSession(localStorage, token[a], prof, tJwt, tStr, tUser)
               ELSE [store |-> localStorage, evs |-> <<>>]
      url == redirectWithParams(token[a], Or(prof, EmptyObj), tStr2)
  IN IF \E i \in 1..Len(saved.evs) : ~saved.evs[i].ok
     THEN /\ pc' = [pc EXCEPT ![a] = "NetworkError"]
          /\ profile' = [profile EXCEPT ![a] = prof]
          /\ errorText' = showError(Str(MsgConnect))
          /\ trace' = [trace EXCEPT ![a] =
                         @ \o evs \o saved.evs \o <<ShowErrorEv(showError(Str(MsgConnect)))>>]
          /\ UNCHANGED <<data, token, idx, localStorage, href, fnVars>>
     ELSE /\ pc' = [pc EXCEPT ![a] = "Success"]
          /\ profile' = [profile EXCEPT ![a] = prof]
          /\ localStorage' = saved.store
          /\ href' = url
          /\ trace' = [trace EXCEPT ![a] = @ \o evs \o saved.evs \o <<RedirectEv(url)>>]
          /\ UNCHANGED <<data, token, idx, errorText, fnVars>>

\* A handler that redirects first and persists the profile afterwards.
FinishRedirectFirst(a, prof, evs, tJwt, tStr, tUser, tStr2) ==
  LET saved == IF Truthy(prof)
               THEN saveSession(localStorage, token[a], prof, tJwt, tStr, tUser)
               ELSE [store |-> localStorage, evs |-> <<>>]
      url == redirectWithParams(token[a], Or(prof, EmptyObj), tStr2)
  IN /\ pc' = [pc EXCEPT ![a] = "Success"]
     /\ profile' = [profile EXCEPT ![a] = prof]
     /\ localStorage' = saved.store
     /\ href' = url
     /\ trace' = [trace EXCEPT ![a] = @ \o evs \o <<RedirectEv(url)>> \o saved.evs]
     /\ UNCHANGED <<data, token, idx, errorText, fnVars>>

\* A handler that persists `profile || {}` without testing the profile.
FinishAlwaysSaves(a, prof, evs, tJwt, tStr, tUser, tStr2) ==
  LET saved == saveSession(localStorage, token[a], Or(prof, EmptyObj), tJwt, tStr, tUser)
      url == redirectWithParams(token[a], Or(prof, EmptyObj), tStr2)
  IN /\ pc' = [pc EXCEPT ![a] = "Success"]
     /\ profile' = [profile EXCEPT ![a] = prof]
     /\ localStorage' = saved.store
     /\ href' = url
     /\ trace' = [trace EXCEPT ![a] = @ \o evs \o saved.evs \o <<RedirectEv(url)>>]
     /\ UNCHANGED <<data, token, idx, errorText, fnVars>>

\* A handler that redirects with the session it reads back from the storage,
\* which all invocations share.
FinishFromStorage(a, prof, evs, tJwt, tStr, tUser, tStr2) ==
  LET saved == IF Truthy(prof)
               THEN saveSession(localStorage, token[a], prof, tJwt, tStr, tUser)
               ELSE [store |-> localStorage, evs |-> <<>>]
      url == [base |-> FRONT_REDIRECT,
              params |-> << <<"jwt", ToText(saved.store.jwt)>>,
                            <<"browser_url", BROWSER_URL>>,
                            <<"userdata", IF saved.store.userdata = Null THEN "{}"
                                          ELSE saved.store.userdata.s>> >>]
  IN /\ pc' = [pc EXCEPT ![a] = "Success"]
     /\ profile' = [profile EXCEPT ![a] = prof]
     /\ localStorage' = saved.store
     /\ href' = url
     /\ trace' = [trace EXCEPT ![a] = @ \o evs \o saved.evs \o <<RedirectEv(url)>>]
     /\ UNCHANGED <<data, token, idx, errorText, fnVars>>

\* Lines 138-144 once fetchUserProfile has returned `prof`.
Finish(a, prof, evs, tJwt, tStr, tUser, tStr2) ==
  LET saved == IF Truthy(prof)
               THEN saveSession(localStorage, token[a], prof, tJwt, tStr, tUser)
               ELSE [store |-> localStorage, evs |-> <<>>]
      url == redirectWithParams(token[a], Or(prof, EmptyObj), tStr2)
  IN /\ pc' = [pc EXCEPT ![a] = "Success"]
     /\ profile' = [profile EXCEPT ![a] = prof]
     /\ localStorage' = saved.store
     /\ href' = url
     /\ trace' = [trace EXCEPT ![a] = @ \o evs \o saved.evs \o <<RedirectEv(url)>>]
     /\ UNCHANGED <<data, token, idx, errorText, fnVars>>

\* Lines 67, 73 and 138: fetchUserProfile returns `prof`.  The handler awaits
\* that result and stays suspended until it is resumed with it.
Returned(a, prof, evs) ==
  /\ pc' = [pc EXCEPT ![a] = "awaitProfile"]
  /\ profile' = [profile EXCEPT ![a] = prof]
  /\ trace' = [trace EXCEPT ![a] = @ \o evs]
  /\ UNCHANGED <<data, token, idx, localStorage, errorText, href, fnVars>>

\* A resolver without its try/catch: the failure of the last candidate reaches
\* the handler's catch.
AdvanceRethrows(a, evs) ==
  IF idx[a] < Len(PROFILE_CANDIDATES)
  THEN /\ idx' = [idx EXCEPT ![a] = @ + 1]
       /\ pc' = [pc EXCEPT ![a] = "awaitCandidate"]
       /\ trace' = [trace EXCEPT ![a] =
                      @ \o evs \o <<FetchEv(PROFILE_CANDIDATES[idx[a] + 1],
                                            "Bearer " \o ToText(token[a]))>>]
       /\ UNCHANGED <<data, token, profile, localStorage, errorText, href, fnVars>>
  ELSE Caught(a, evs)

\* A loop that is off by one: it requests the failed candidate again.
AdvanceOffByOne(a, evs) ==
  IF idx[a] < Len(PROFILE_CANDIDATES)
  THEN /\ idx' = [idx EXCEPT ![a] = @ + 1]
       /\ pc' = [pc EXCEPT ![a] = "awaitCandidate"]
       /\ trace' = [trace EXCEPT ![a] =
                      @ \o evs \o <<FetchEv(PROFILE_CANDIDATES[idx[a]],
                                            "Bearer " \o ToText(token[a]))>>]
       /\ UNCHANGED <<data, token, profile, localStorage, errorText, href, fnVars>>
  ELSE Returned(a, Null, evs)

\* Lines 50-57 and 69-73: the candidate at idx has failed; the loop requests
\* the next one, or ends and fetchUserProfile returns null.
Advance(a, evs) ==
  IF idx[a] < Len(PROFILE_CANDIDATES)
  THEN /\ idx' = [idx EXCEPT ![a] = @ + 1]
       /\ pc' = [pc EXCEPT ![a] = "awaitCandidate"]
       /\ trace' = [trace EXCEPT ![a] =
                      @ \o evs \o <<FetchEv(PROFILE_CANDIDATES[idx[a] + 1],
                                            "Bearer " \o ToText(token[a]))>>]
       /\ UNCHANGED <<data, token, profile, localStorage, errorText, href, fnVars>>
  ELSE Returned(a, Null, evs)

\* Lines 126-138 and 50-57: the body of a successful login has been read, or
\* not; with a token the handler stores it and requests the first candidate.
BodySettled(a, bodies, faults) ==
  /\ pc[a] = "awaitBody"
  /\ \E body \in bodies \cup {Malformed}, tJwt \in faults :
       LET ev == <<BodyEv(ENDPOINT_LOGIN, body)>>
           tok == pickToken(body)
           saved == saveSession(localStorage, tok, Undef, tJwt, FALSE, FALSE)
       IN IF body = Malformed THEN Caught(a, ev)
          ELSE IF ~Truthy(tok)
            THEN /\ pc' = [pc EXCEPT ![a] = "TokenMissing"]
                 /\ data' = [data EXCEPT ![a] = body]
                 /\ token' = [token EXCEPT ![a] = tok]
                 /\ errorText' = showError(Str(MsgNoToken))
                 /\ trace' = [trace EXCEPT ![a] =
                                @ \o ev \o <<ShowErrorEv(showError(Str(MsgNoToken)))>>]
                 /\ UNCHANGED <<idx, profile, localStorage, href, fnVars>>
            ELSE /\ pc' = [pc EXCEPT ![a] = "awaitCandidate"]
                 /\ data' = [data EXCEPT ![a] = body]
                 /\ token' = [token EXCEPT ![a] = tok]
                 /\ idx' = [idx EXCEPT ![a] = 1]
                 /\ localStorage' = saved.store
                 /\ trace' = [trace EXCEPT ![a] =
                                @ \o ev \o saved.evs
                                  \o <<FetchEv(PROFILE_CANDIDATES[1], "Bearer " \o ToText(tok))>>]
                 /\ UNCHANGED <<profile, errorText, href, fnVars>>

\* A resolver that does not test res.ok: it reads the body of any response.
CandidateSettledIgnoresStatus(a) ==
  /\ pc[a] = "awaitCandidate"
  /\ \E kind \in ResponseKinds :
       LET ev == <<ResponseEv(PROFILE_CANDIDATES[idx[a]], kind)>>
       IN IF kind # "reject"
          THEN /\ pc' = [pc EXCEPT ![a] = "awaitCandidateBody"]
               /\ trace' = [trace EXCEPT ![a] = @ \o ev]
               /\ UNCHANGED <<data, token, idx, profile, localStorage, errorText, href, fnVars>>
          ELSE Advance(a, ev)

\* Lines 52-59 and 69-72: the candidate's call settles; on a success status
\* the resolver goes on to read the body.
CandidateSettled(a) ==
  /\ pc[a] = "awaitCandidate"
  /\ \E kind \in ResponseKinds :
       LET ev == <<ResponseEv(PROFILE_CANDIDATES[idx[a]], kind)>>
       IN IF kind = "ok"
          THEN /\ pc' = [pc EXCEPT ![a] = "awaitCandidateBody"]
               /\ trace' = [trace EXCEPT ![a] = @ \o ev]
               /\ UNCHANGED <<data, token, idx, profile, localStorage, errorText, href, fnVars>>
          ELSE Advance(a, ev)

\* Lines 59-72: the candidate's body has been read, or not.
CandidateBodySettled(a, bodies) ==
  /\ pc[a] = "awaitCandidateBody"
  /\ \E body \in bodies \cup {Malformed} :
       LET ev == <<BodyEv(PROFILE_CANDIDATES[idx[a]], body)>>
       IN IF body = Malformed \/ NormalizeThrows(body)
          THEN Advance(a, ev)
          ELSE Returned(a, Normalize(body), ev)

\* Lines 138-144: the handler is resumed with the result of fetchUserProfile,
\* saves the session when there is a profile, and redirects.
ProfileSettled(a, faults, sfaults) ==
  /\ pc[a] = "awaitProfile"
  /\ \E tJwt \in faults, tUser \in faults, tStr \in sfaults, tStr2 \in sfaults :
       Finish(a, profile[a], <<>>, tJwt, tStr, tUser, tStr2)

\* The browser has followed the redirect and the login page is opened again:
\* the script starts anew, the storage is what the earlier logins left.
LoadPage ==
  /\ href # NotNavigated
  /\ \A a \in Slots : pc[a] \notin InFlight
  /\ pc' = [a \in Slots |-> "Idle"]
  /\ data' = [a \in Slots |-> Undef]
  /\ token' = [a \in Slots |-> Undef]
  /\ idx' = [a \in Slots |-> 0]
  /\ profile' = [a \in Slots |-> Undef]
  /\ trace' = [a \in Slots |-> <<>>]
  /\ errorText' = ""
  /\ href' = NotNavigated
  /\ UNCHANGED <<localStorage, fnVars>>

\* A storage write or a serialization may throw, or not.  The actions take
\* the faults of the storage writes (faults) and those of the
\* serializations (sfaults).
Faults == BOOLEAN
NoFaults == {FALSE}

\* One submission at a time: the invocations of the handler follow each other.
Next ==
  \/ Submit(1)
  \/ LoginSettled(1)
  \/ ErrBodySettled(1, ErrBodies)
  \/ BodySettled(1, AuthBodies, Faults)
  \/ CandidateSettled(1)
  \/ CandidateBodySettled(1, ProfileBodies)
  \/ ProfileSettled(1, Faults, Faults)
  \/ LoadPage

Spec == Init /\ [][Next]_vars

\* Every network call that was issued completes or fails, and a handler
\* whose awaited result is there is resumed.
Settle(a) ==
  \/ LoginSettled(a)
  \/ ErrBodySettled(a, ErrBodies)
  \/ BodySettled(a, AuthBodies, Faults)
  \/ CandidateSettled(a)
  \/ CandidateBodySettled(a, ProfileBodies)
  \/ ProfileSettled(a, Faults, Faults)

FairSpec == Spec /\ WF_vars(Settle(1))

\* The same with a storage that works: no setItem and no serialization
\* throws.
NextStorageOk ==
  \/ Submit(1)
  \/ LoginSettled(1)
  \/ ErrBodySettled(1, ErrBodies)
  \/ BodySettled(1, AuthBodies, NoFaults)
  \/ CandidateSettled(1)
  \/ CandidateBodySettled(1, ProfileBodies)
  \/ ProfileSettled(1, NoFaults, NoFaults)
  \/ LoadPage

SpecStorageOk == Init /\ [][NextStorageOk]_vars

(***************************************************************************)
(* Overlapping submissions: nothing in the handler keeps a second submit   *)
(* event from starting an invocation while another is suspended.  The      *)
(* answers are drawn from fewer values, one token per authentication body. *)
(***************************************************************************)
OverlapAuthBodies ==
  { Obj(<<Prop("access_token", Str("T1"))>>), Obj(<<Prop("jwt", Str("T2"))>>) }
OverlapProfileBodies ==
  { Obj(<<Prop("id", Num(7)), Prop("name", Str("Bob"))>>),
    Obj(<<Prop("username", Str("ann"))>>) }

NextOverlap ==
  \/ \E a \in Slots : Submit(a)
  \/ \E a \in Slots : LoginSettled(a)
  \/ \E a \in Slots : ErrBodySettled(a, {})
  \/ \E a \in Slots : BodySettled(a, OverlapAuthBodies, NoFaults)
  \/ \E a \in Slots : CandidateSettled(a)
  \/ \E a \in Slots : CandidateBodySettled(a, OverlapProfileBodies)
  \/ \E a \in Slots : ProfileSettled(a, NoFaults, NoFaults)
  \/ LoadPage

SpecOverlap == Init /\ [][NextOverlap]_vars

(***************************************************************************)
(* pickToken as a function: applied once to every response body over the   *)
(* three recognized fields and one unrecognized field.                     *)
(***************************************************************************)
FieldValues == {Undef, Null, Str(""), Str("T1"), Str("T2"), Num(0), Num(7), EmptyObj}

Present(props) == SelectSeq(props, LAMBDA p : p.v # Undef)

PickInputs ==
  {Null, Num(7)} \cup
  { Obj(Present(<<Prop("token_type", x), Prop("token", t), Prop("jwt", j),
                  Prop("access_token", at)>>)) :
      x \in {Undef, Str("bearer")}, t \in FieldValues, j \in FieldValues,
      at \in FieldValues }

InitPick ==
  /\ Init!1 /\ Init!2 /\ Init!3 /\ Init!4 /\ Init!5 /\ Init!6 /\ Init!7 /\ Init!8 /\ Init!9
  /\ arg \in PickInputs
  /\ ret = Undef

ApplyPickToken ==
  /\ ret = Undef
  /\ ret' = pickToken(arg)
  /\ UNCHANGED <<slotVars, localStorage, errorText, href, arg>>

SpecPick == InitPick /\ [][ApplyPickToken]_vars

(***************************************************************************)
(* The normalisation as a function: applied once to every raw profile over *)
(* the seven names it reads and one it does not, each missing, null or set,*)
(* and to some profiles whose properties come in another order.            *)
(***************************************************************************)
NormInputs ==
  { Num(5),
    Obj(<<Prop("role", Str("admin")), Prop("id", Num(7)), Prop("user_id", Null)>>),
    Obj(<<Prop("name", Str("Bob")), Prop("email", Str("a@b")), Prop("username", Null),
          Prop("userId", Num(9))>>) } \cup
  { Obj(Present(<<Prop("user_id", uid), Prop("id", id), Prop("userId", uid2),
                  Prop("username", un), Prop("user", us), Prop("name", nm),
                  Prop("email", em), Prop("role", ro)>>)) :
      uid \in {Undef, Null, Num(0), Num(1)}, id \in {Undef, Null, Num(7)},
      uid2 \in {Undef, Null, Num(9)}, un \in {Undef, Null, Str(""), Str("ann")},
      us \in {Undef, Null, Str("al")}, nm \in {Undef, Null, Str("Bob")},
      em \in {Undef, Null, Str("a@b")}, ro \in {Undef, Str("admin")} }

InitNorm ==
  /\ Init!1 /\ Init!2 /\ Init!3 /\ Init!4 /\ Init!5 /\ Init!6 /\ Init!7 /\ Init!8 /\ Init!9
  /\ arg \in NormInputs
  /\ ret = Undef

\* Lines 61-67 on a decoded body on which they do not throw.
ApplyNormalize ==
  /\ ret = Undef
  /\ ~NormalizeThrows(arg)
  /\ ret' = Normalize(arg)
  /\ UNCHANGED <<slotVars, localStorage, errorText, href, arg>>

SpecNorm == InitNorm /\ [][ApplyNormalize]_vars

(***************************************************************************)
(* Properties.  They read the record of what an invocation has done to the *)
(* outside.                                                                *)
(***************************************************************************)
IsSetItem(e) == e.ev = "setItem"
IsUserWrite(e) == e.ev = "setItem" /\ e.key = "userdata"
IsJwtWrite(e) == e.ev = "setItem" /\ e.key = "jwt"
IsCandFetch(e) == e.ev = "fetch" /\ e.path # ENDPOINT_LOGIN
IsRedirect(e) == e.ev = "redirect"
IsShowError(e) == e.ev = "showError"
IsLoginResponse(e, kind) == e.ev = "response" /\ e.path = ENDPOINT_LOGIN /\ e.kind = kind
IsLoginBody(e) == e.ev = "body" /\ e.path = ENDPOINT_LOGIN

\* The candidate's call failed, its status was no success, or its body did
\* not decode.
CandFailedAs(e, path) ==
  \/ e.ev = "response" /\ e.path = path /\ e.kind # "ok"
  \/ e.ev = "body" /\ e.path = path /\ e.val = Malformed
\* The candidate's body decoded to null, on which the normalisation throws.
CandNullBody(e, path) == e.ev = "body" /\ e.path = path /\ e.val = Null
\* The candidate's body decoded to a profile.
CandSucceededAs(e, path) ==
  e.ev = "body" /\ e.path = path /\ e.val # Malformed /\ e.val # Null

CandPaths == {PROFILE_CANDIDATES[k] : k \in 1..Len(PROFILE_CANDIDATES)}
CandEnded(e, path) == CandFailedAs(e, path) \/ CandNullBody(e, path)
CandSucceeded(e) == \E p \in CandPaths : CandSucceededAs(e, p)

SomeEv(tr, P(_)) == \E i \in 1..Len(tr) : P(tr[i])
NoEv(tr, P(_)) == \A i \in 1..Len(tr) : ~P(tr[i])
Before(tr, i) == SubSeq(tr, 1, i - 1)

\* fetchUserProfile has returned: a candidate gave a profile, or all have ended.
ResolutionFinished(tr) ==
  \/ SomeEv(tr, CandSucceeded)
  \/ \A p \in CandPaths : SomeEv(tr, LAMBDA e : CandEnded(e, p))

Extracted(a) == Truthy(token[a])

\* C1: in an attempt that extracted a token, the first storage write is the
\* token alone and precedes every profile request; storage is written again
\* only after a candidate gave a profile and after the last request; the
\* redirect is the last step and comes only once profile resolution has
\* finished, and an attempt that has succeeded has performed it.
C1_StepOrder ==
  \A a \in Slots : Extracted(a) =>
    LET tr == trace[a]
        n == Len(tr)
    IN /\ \E w \in 1..n :
            /\ IsJwtWrite(tr[w]) /\ tr[w].text = ToText(token[a])
            /\ NoEv(Before(tr, w), IsSetItem)
            /\ NoEv(Before(tr, w), IsCandFetch)
            /\ w < n /\ IsCandFetch(tr[w + 1])
            /\ \A i \in (w + 1)..n : IsSetItem(tr[i]) =>
                 /\ SomeEv(Before(tr, i), CandSucceeded)
                 /\ \A j \in i..n : ~IsCandFetch(tr[j])
       /\ \A i \in 1..n : IsRedirect(tr[i]) =>
            /\ i = n
            /\ ResolutionFinished(Before(tr, i))
       /\ pc[a] = "Success" <=> IsRedirect(tr[n])

\* C1 witness: a succeeded attempt whose first candidate failed and whose
\* second gave a profile, written to storage before the redirect.
C1_Witness ==
  \E a \in Slots :
    /\ pc[a] = "Success"
    /\ SomeEv(trace[a], LAMBDA e : CandFailedAs(e, PROFILE_CANDIDATES[1]))
    /\ SomeEv(trace[a], LAMBDA e : CandSucceededAs(e, PROFILE_CANDIDATES[2]))
    /\ SomeEv(trace[a], LAMBDA e : IsUserWrite(e) /\ e.ok)

\* The authentication body carries a recognized field with a non-empty value.
CarriesToken(d) ==
  \E k \in {"access_token", "jwt", "token"} : OptGet(d, k) \notin {Undef, Null, Str(""), Num(0)}

Redirected(a) ==
  /\ pc[a] = "Success"
  /\ IsRedirect(trace[a][Len(trace[a])])
  /\ href = trace[a][Len(trace[a])].url

\* C2: an attempt whose authentication response is a success with a body
\* carrying a non-empty token never shows an error nor ends in an error
\* state, and, every issued call settling, it reaches the redirect - whatever
\* the candidates, the storage writes and the serializations do.
C2_TokenLeadsToRedirect ==
  /\ [](\A a \in Slots : CarriesToken(data[a]) =>
          /\ pc[a] \notin {"AuthFailed", "TokenMissing", "NetworkError"}
          /\ NoEv(trace[a], IsShowError)
          /\ errorText = "")
  /\ \A a \in Slots : CarriesToken(data[a]) ~> Redirected(a)

\* C2 witness: a redirect reached although every candidate failed and the
\* token write failed.
C2_Witness ==
  \E a \in Slots :
    /\ Redirected(a)
    /\ CarriesToken(data[a])
    /\ profile[a] = Null
    /\ SomeEv(trace[a], LAMBDA e : IsSetItem(e) /\ ~e.ok)

\* The detail of a rejected login's body, when the body decoded and carries a
\* non-empty string under `detail`; Undef otherwise.
DetailString(err) ==
  IF err # Malformed /\ OptGet(err, "detail").t = "string" /\ OptGet(err, "detail").s # ""
  THEN OptGet(err, "detail")
  ELSE Undef

\* C3: an attempt whose login response has a non-success status ends in
\* AuthFailed without a storage write, a profile request or a redirect, and
\* the error shown is the body's detail string if the body decoded and
\* carries one, the generic fallback message otherwise.
C3_AuthFailedShowsDetail ==
  \A a \in Slots :
    (Len(trace[a]) >= 3 /\ IsLoginResponse(trace[a][2], "notok") /\ IsLoginBody(trace[a][3])) =>
      /\ pc[a] = "AuthFailed"
      /\ NoEv(trace[a], IsSetItem)
      /\ NoEv(trace[a], IsCandFetch)
      /\ NoEv(trace[a], IsRedirect)
      /\ href = NotNavigated
      /\ errorText = IF DetailString(trace[a][3].val) # Undef
                     THEN DetailString(trace[a][3].val).s
                     ELSE MsgCredentials

\* C4: an attempt whose login call itself fails ends in NetworkError with
\* the connectivity message shown, and has made no storage write, no profile
\* request and no redirect.
C4_TransportFailure ==
  \A a \in Slots :
    (Len(trace[a]) >= 2 /\ IsLoginResponse(trace[a][2], "reject")) =>
      /\ pc[a] = "NetworkError"
      /\ errorText = MsgConnect
      /\ trace[a] = <<FetchEv(ENDPOINT_LOGIN, ""), ResponseEv(ENDPOINT_LOGIN, "reject"),
                      ShowErrorEv(MsgConnect)>>
      /\ href = NotNavigated

\* C4 witness: the login call has failed after an earlier login of the same
\* browser had stored its session.
C4_Witness ==
  \E a \in Slots :
    /\ Len(trace[a]) >= 2 /\ IsLoginResponse(trace[a][2], "reject")
    /\ localStorage.jwt # Null

NoRecognizedField(d) ==
  ~HasKey(d, "access_token") /\ ~HasKey(d, "jwt") /\ ~HasKey(d, "token")

\* C5: an attempt whose login response is a success with a decoded body
\* that has none of access_token, jwt and token gets no token from
\* pickToken and ends in TokenMissing with the missing-token message shown,
\* without a storage write, a profile request or a redirect.
C5_TokenMissing ==
  \A a \in Slots :
    (/\ Len(trace[a]) >= 3 /\ IsLoginResponse(trace[a][2], "ok") /\ IsLoginBody(trace[a][3])
     /\ trace[a][3].val # Malformed /\ NoRecognizedField(trace[a][3].val)) =>
      /\ pc[a] = "TokenMissing"
      /\ token[a] = Null
      /\ errorText = MsgNoToken
      /\ trace[a][Len(trace[a])] = ShowErrorEv(MsgNoToken)
      /\ NoEv(trace[a], IsSetItem)
      /\ NoEv(trace[a], IsCandFetch)
      /\ NoEv(trace[a], IsRedirect)
      /\ href = NotNavigated

\* C5 witness: a body with an unrecognized field only has ended the attempt
\* in TokenMissing.
C5_Witness ==
  \E a \in Slots :
    /\ pc[a] = "TokenMissing"
    /\ HasKey(data[a], "token_type")
    /\ NoRecognizedField(data[a])

\* The requests for profile candidates, in the order they were issued.
CandFetches(tr) == SelectSeq(tr, IsCandFetch)

\* C6: the candidates are requested in the configured order, one at a time:
\* the k-th request is for the k-th candidate, the first follows the token
\* write, every later one directly follows the failure of the candidate
\* before it, at most one request is unsettled, and no request follows a
\* candidate that gave a profile.
C6_SequentialCandidates ==
  \A a \in Slots :
    LET tr == trace[a]
        n == Len(tr)
        f == CandFetches(tr)
    IN /\ Len(f) <= Len(PROFILE_CANDIDATES)
       /\ \A k \in 1..Len(f) : f[k].path = PROFILE_CANDIDATES[k]
       /\ \A i \in 1..n : IsCandFetch(tr[i]) =>
            /\ i > 1
            /\ IF tr[i].path = PROFILE_CANDIDATES[1]
               THEN IsJwtWrite(tr[i - 1])
               ELSE \E k \in 1..(Len(PROFILE_CANDIDATES) - 1) :
                      /\ tr[i].path = PROFILE_CANDIDATES[k + 1]
                      /\ CandEnded(tr[i - 1], PROFILE_CANDIDATES[k])
            /\ \A j \in 1..(i - 1) : ~CandSucceeded(tr[j])
       /\ Len(f) - Len(SelectSeq(tr, LAMBDA e : \E p \in CandPaths :
                                     CandEnded(e, p) \/ CandSucceededAs(e, p)))
            \in {0, 1}

\* C6 witness: the first candidate failed, the second gave a profile, the
\* attempt has ended and the third was never requested.
C6_Witness ==
  \E a \in Slots :
    /\ pc[a] = "Success"
    /\ SomeEv(trace[a], LAMBDA e : CandFailedAs(e, PROFILE_CANDIDATES[1]))
    /\ SomeEv(trace[a], LAMBDA e : CandSucceededAs(e, PROFILE_CANDIDATES[2]))
    /\ Len(CandFetches(trace[a])) = 2

AllCandidatesFailed(tr) ==
  \A p \in CandPaths : SomeEv(tr, LAMBDA e : CandEnded(e, p))

\* C7: when every candidate has failed (a failed call, a non-success status,
\* a body that is not JSON or is null), the resolver returns null and the
\* attempt still succeeds: its only storage write is the token's, and the
\* userdata parameter of its redirect is the text {}.
C7_AllCandidatesFail ==
  \A a \in Slots :
    (AllCandidatesFailed(trace[a]) /\ pc[a] \notin InFlight) =>
      /\ pc[a] = "Success"
      /\ profile[a] = Null
      /\ NoEv(trace[a], IsUserWrite)
      /\ Len(SelectSeq(trace[a], IsSetItem)) = 1
      /\ SomeEv(trace[a], IsJwtWrite)
      /\ Redirected(a)
      /\ Param(href, "userdata") = "{}"
      /\ NoEv(trace[a], IsShowError)

\* C7 witness: all three candidates answered with a non-success status and
\* the attempt has redirected, over a profile entry of an earlier login.
C7_Witness ==
  \E a \in Slots :
    /\ pc[a] = "Success"
    /\ \A p \in CandPaths : SomeEv(trace[a], LAMBDA e : e = ResponseEv(p, "notok"))
    /\ localStorage.userdata # Null

\* C8: a profile is resolved only from a candidate whose call completed with
\* a success status and whose body decoded; a candidate whose call failed,
\* whose status was no success or whose body did not decode has only failed
\* itself: the next candidate is requested (or, after the last, the
\* resolver returns no profile and the attempt goes on to its redirect), no
\* error is shown and the attempt is in no error state.
C8_CandidateFailureIsLocal ==
  \A a \in Slots :
    LET tr == trace[a]
        n == Len(tr)
    IN /\ (Extracted(a) /\ Truthy(profile[a])) =>
            \E i \in 2..n :
              /\ CandSucceededAs(tr[i], PROFILE_CANDIDATES[idx[a]])
              /\ tr[i - 1] = ResponseEv(PROFILE_CANDIDATES[idx[a]], "ok")
              /\ profile[a] = Normalize(tr[i].val)
       /\ \A i \in 1..n, k \in 1..Len(PROFILE_CANDIDATES) :
            CandFailedAs(tr[i], PROFILE_CANDIDATES[k]) =>
              /\ IF k < Len(PROFILE_CANDIDATES)
                 THEN /\ i < n
                      /\ IsCandFetch(tr[i + 1])
                      /\ tr[i + 1].path = PROFILE_CANDIDATES[k + 1]
                 ELSE \/ pc[a] = "awaitProfile" /\ i = n /\ profile[a] = Null
                      \/ pc[a] = "Success" /\ i < n /\ IsRedirect(tr[i + 1])
              /\ NoEv(tr, IsShowError)
              /\ errorText = ""
              /\ pc[a] \in {"awaitCandidate", "awaitCandidateBody", "awaitProfile", "Success"}

\* C8 witness: one attempt has seen a failed call, a non-success status and
\* an undecodable body, one per candidate.
C8_Witness ==
  \E a \in Slots :
    /\ SomeEv(trace[a], LAMBDA e : e = ResponseEv(PROFILE_CANDIDATES[1], "reject"))
    /\ SomeEv(trace[a], LAMBDA e : e = ResponseEv(PROFILE_CANDIDATES[2], "notok"))
    /\ SomeEv(trace[a], LAMBDA e : e = BodyEv(PROFILE_CANDIDATES[3], Malformed))

Applied == ret # Undef

\* C9 as stated: for every response object that contains access_token,
\* pickToken returns that field's value.
C9_AccessTokenAlways ==
  (Applied /\ HasKey(arg, "access_token")) => ret = Get(arg, "access_token")

\* C9: for every response object whose access_token is non-empty (not null,
\* not "", not 0), pickToken returns exactly that value, whatever jwt, token
\* and the other fields are.
C9_AccessTokenFirst ==
  (Applied /\ Get(arg, "access_token") \notin {Undef, Null, Str(""), Num(0)}) =>
    ret = Get(arg, "access_token")

\* C9 witness: pickToken has been applied to an object with a non-empty
\* access_token next to a different non-empty jwt and token.
C9_Witness ==
  /\ Applied
  /\ Get(arg, "access_token") = Str("T1")
  /\ Get(arg, "jwt") = Str("T2")
  /\ Get(arg, "token") = Num(7)

NonEmpty(v) == v \notin {Undef, Null, Str(""), Num(0)}

\* C10: for every response object without access_token, pickToken returns
\* the value of jwt when jwt is present and non-empty, and otherwise the
\* value of token when token is present and non-empty; any non-empty string
\* is returned as it is.
C10_JwtThenToken ==
  (Applied /\ arg.t = "object" /\ ~HasKey(arg, "access_token")) =>
    /\ NonEmpty(Get(arg, "jwt")) => ret = Get(arg, "jwt")
    /\ (~NonEmpty(Get(arg, "jwt")) /\ NonEmpty(Get(arg, "token"))) => ret = Get(arg, "token")

\* C10 witness: pickToken has been applied to an object without
\* access_token whose jwt is empty and whose token is a non-empty string.
C10_Witness ==
  /\ Applied
  /\ ~HasKey(arg, "access_token")
  /\ Get(arg, "jwt") = Str("")
  /\ Get(arg, "token") = Str("T2")

(***************************************************************************)
(* Properties of the normalisation.                                        *)
(***************************************************************************)
CanonicalKeys == {"user_id", "username", "email"}

\* The names a canonical field is looked up under, in priority order.
Aliases(key) ==
  CASE key = "user_id" -> <<"user_id", "id", "userId">>
    [] key = "username" -> <<"username", "user", "name">>
    [] key = "email" -> <<"email">>

\* The first value that is present (neither missing nor null) under the
\* names, null when there is none.
RECURSIVE FirstPresent(_, _)
FirstPresent(raw, names) ==
  IF names = <<>> THEN Null
  ELSE IF Get(raw, Head(names)) \notin {Undef, Null} THEN Get(raw, Head(names))
  ELSE FirstPresent(raw, Tail(names))

KeysOf(o) == IF o.t = "object" THEN {o.props[i].k : i \in 1..Len(o.props)} ELSE {}

\* C11: where the raw profile has a key named like a canonical field, the
\* output's value under that key is the value computed over the field's
\* aliases (the first present one), not the raw value.
C11_ComputedOverridesRaw ==
  Applied =>
    \A key \in CanonicalKeys \cap KeysOf(arg) :
      Get(ret, key) = FirstPresent(arg, Aliases(key))

\* C12: in the output each canonical field is the first present value among
\* its aliases, in their priority order, the three canonical keys are always
\* there, and a field without a present alias is null.
C12_FirstMatchAlwaysPresent ==
  Applied =>
    \A key \in CanonicalKeys :
      /\ HasKey(ret, key)
      /\ Get(ret, key) = FirstPresent(arg, Aliases(key))

\* C13: normalising the output of the normalisation gives that same output,
\* for every raw profile.
C13_Idempotent ==
  Applied => (~NormalizeThrows(ret) /\ Normalize(ret) = ret)

\* C13 witness: the normalisation has been applied to a profile whose
\* user_id is null next to an id that is set.
C13_Witness ==
  /\ Applied
  /\ HasKey(arg, "user_id") /\ Get(arg, "user_id") = Null
  /\ Get(arg, "id") = Num(7)
  /\ Get(arg, "name") = Str("Bob")

\* C14: every key of the raw profile other than user_id, username and email
\* is in the output with the value it has in the raw profile.
C14_RestUnchanged ==
  Applied =>
    \A key \in KeysOf(arg) \ CanonicalKeys :
      HasKey(ret, key) /\ Get(ret, key) = Get(arg, key)

\* C14 witness: the normalisation has been applied to a profile with an
\* unrecognized key and with aliases that it read.
C14_Witness ==
  /\ Applied
  /\ Get(arg, "role") = Str("admin")
  /\ Get(arg, "userId") = Num(9)
  /\ Get(arg, "user") = Str("al")
  /\ ~HasKey(arg, "user_id")

(***************************************************************************)
(* Properties of the redirect, the token and the storage.                  *)
(***************************************************************************)
HasParam(url, name) == \E i \in 1..Len(url.params) : url.params[i][1] = name

\* What fetchUserProfile has returned to an attempt whose record is tr: the
\* normalised body of the candidate that succeeded, null without one.
Resolved(tr) ==
  IF SomeEv(tr, CandSucceeded)
  THEN Normalize(tr[CHOOSE i \in 1..Len(tr) : CandSucceeded(tr[i])].val)
  ELSE Null

\* C15: the userdata parameter of every redirect is there, is not empty and
\* is the JSON text of an object: the serialization of the resolved profile,
\* or the text {} - always {} when no profile was resolved.
C15_UserdataIsObjectText ==
  \A a \in Slots : \A i \in 1..Len(trace[a]) :
    IsRedirect(trace[a][i]) =>
      LET u == Param(trace[a][i].url, "userdata")
      IN /\ HasParam(trace[a][i].url, "userdata")
         /\ u # ""
         /\ profile[a] = Resolved(trace[a])
         /\ IF Truthy(profile[a])
            THEN u \in {Stringify(profile[a]), "{}"}
            ELSE u = "{}"

\* C15 witness: a profile was resolved and stored, its serialization for the
\* redirect failed, and the redirect carries {}.
C15_Witness ==
  \E a \in Slots :
    /\ pc[a] = "Success"
    /\ Truthy(profile[a])
    /\ SomeEv(trace[a], LAMBDA e : IsUserWrite(e) /\ e.ok)
    /\ Param(href, "userdata") = "{}"

\* C16: in an attempt that extracted a token, the token is what pickToken
\* returned for the authentication body, and every write under the jwt key,
\* the bearer credential of every candidate request and the jwt parameter of
\* the redirect carry that value (as text).
C16_OneTokenPerAttempt ==
  \A a \in Slots : Extracted(a) =>
    LET tr == trace[a]
    IN /\ IsLoginBody(tr[3]) /\ token[a] = pickToken(tr[3].val)
       /\ \A i \in 1..Len(tr) :
            /\ IsJwtWrite(tr[i]) => tr[i].text = ToText(token[a])
            /\ (IsJwtWrite(tr[i]) /\ tr[i].ok) => localStorage.jwt = Str(ToText(token[a]))
            /\ IsCandFetch(tr[i]) => tr[i].auth = "Bearer " \o ToText(token[a])
            /\ IsRedirect(tr[i]) => Param(tr[i].url, "jwt") = ToText(token[a])

\* C16 witness: an attempt has written its token twice, one of the writes
\* failing, has requested two candidates and has redirected.
C16_Witness ==
  \E a \in Slots :
    /\ pc[a] = "Success"
    /\ token[a] = Str("T2")
    /\ Len(SelectSeq(trace[a], IsJwtWrite)) = 2
    /\ Len(CandFetches(trace[a])) = 2
    /\ SomeEv(trace[a], LAMBDA e : IsJwtWrite(e) /\ ~e.ok)

FailedWrite(e) == IsSetItem(e) /\ ~e.ok

\* C17: an attempt with a failed storage write shows no error and is in no
\* error state; after the failed write the profile is still requested, and
\* the redirect carries the token and the resolved profile, as it does
\* when the writes succeed.
C17_StorageFailureIsSilent ==
  \A a \in Slots :
    LET tr == trace[a]
    IN SomeEv(tr, FailedWrite) =>
         /\ NoEv(tr, IsShowError)
         /\ errorText = ""
         /\ pc[a] \in {"awaitCandidate", "awaitCandidateBody", "awaitProfile", "Success"}
         /\ FailedWrite(tr[4]) => IsCandFetch(tr[5])
         /\ pc[a] = "Success" =>
              /\ profile[a] = Resolved(tr)
              /\ IsRedirect(tr[Len(tr)])
              /\ Param(tr[Len(tr)].url, "jwt") = ToText(token[a])
              /\ Param(tr[Len(tr)].url, "userdata")
                   \in {Stringify(Or(Resolved(tr), EmptyObj)), "{}"}
              /\ href = tr[Len(tr)].url

\* C17 witness: the token-only write and the token+profile write have both
\* failed and the attempt has redirected with the profile.
C17_Witness ==
  \E a \in Slots :
    /\ pc[a] = "Success"
    /\ Truthy(profile[a])
    /\ Len(SelectSeq(trace[a], FailedWrite)) = 2
    /\ Param(href, "userdata") = Stringify(profile[a])

\* C20: an attempt whose login response is a success with a body that does
\* not decode ends with the connectivity message and nothing else done;
\* and in every attempt a storage write or a redirect happens only with a
\* token extracted, an error message only without one.
C20_UndecodableBodyHalts ==
  \A a \in Slots :
    LET tr == trace[a]
    IN /\ (Len(tr) >= 3 /\ IsLoginResponse(tr[2], "ok")
             /\ tr[3] = BodyEv(ENDPOINT_LOGIN, Malformed)) =>
            /\ pc[a] = "NetworkError"
            /\ errorText = MsgConnect
            /\ tr = <<FetchEv(ENDPOINT_LOGIN, ""), ResponseEv(ENDPOINT_LOGIN, "ok"),
                      BodyEv(ENDPOINT_LOGIN, Malformed), ShowErrorEv(MsgConnect)>>
            /\ href = NotNavigated
       /\ (SomeEv(tr, IsSetItem) \/ SomeEv(tr, IsRedirect) \/ SomeEv(tr, IsCandFetch)
             \/ pc[a] = "Success") => Extracted(a)
       /\ (SomeEv(tr, IsShowError) \/ pc[a] \in {"AuthFailed", "TokenMissing", "NetworkError"})
            => ~Extracted(a)
       /\ pc[a] \in {"AuthFailed", "TokenMissing", "NetworkError"} =>
            (IsShowError(tr[Len(tr)]) /\ errorText = tr[Len(tr)].text)

\* C20 witness: the body of a successful login response did not decode,
\* with the session of an earlier login in the storage.
C20_Witness ==
  \E a \in Slots :
    /\ pc[a] = "NetworkError"
    /\ SomeEv(trace[a], LAMBDA e : e = BodyEv(ENDPOINT_LOGIN, Malformed))
    /\ localStorage.jwt # Null
    /\ localStorage.userdata # Null

\* C18 as stated: with working storage, once a login has reached its
\* redirect the stored token is that login's and the stored profile entry is
\* absent or the serialization of the profile resolved in that login.
C18_StoredSessionIsThisLogin ==
  \A a \in Slots : pc[a] = "Success" =>
    /\ localStorage.jwt = Str(ToText(token[a]))
    /\ \/ localStorage.userdata = Null
       \/ Truthy(profile[a]) /\ localStorage.userdata = Str(Stringify(profile[a]))

\* C18: with working storage, once a login has reached its redirect the
\* stored token is that login's, and the stored profile entry is the
\* serialization of the profile resolved in that login if it resolved one,
\* and otherwise what was stored before that login: absent, or the entry of
\* an earlier login.  An entry changes only by being overwritten
\* with a whole new value and is never deleted.
C18_OverwrittenNeverCleared ==
  /\ [](\A a \in Slots : pc[a] = "Success" => localStorage.jwt = Str(ToText(token[a])))
  /\ [][ /\ \A a \in Slots : (pc[a] # "Success" /\ pc'[a] = "Success") =>
              IF Truthy(profile'[a])
              THEN /\ SomeEv(trace'[a], IsUserWrite)
                   /\ localStorage'.userdata = Str(Stringify(profile'[a]))
              ELSE localStorage'.userdata = localStorage.userdata
         /\ localStorage'.userdata # localStorage.userdata =>
              \E a \in Slots : pc[a] # "Success" /\ pc'[a] = "Success"
         /\ localStorage'.jwt # localStorage.jwt =>
              \E a \in Slots : /\ pc'[a] \in {"awaitCandidate", "Success"}
                               /\ localStorage'.jwt = Str(ToText(token'[a]))
         /\ localStorage.jwt # Null => localStorage'.jwt # Null
         /\ localStorage.userdata # Null => localStorage'.userdata # Null ]_vars

\* C18 witness: a login has redirected without a profile, and the storage
\* holds its token next to the profile entry of an earlier login.
C18_Witness ==
  \E a \in Slots :
    /\ pc[a] = "Success"
    /\ profile[a] = Null
    /\ token[a] = Str("T2")
    /\ localStorage.jwt = Str("T2")
    /\ localStorage.userdata # Null

\* The token an attempt drew from its own authentication response, as text,
\* and the profile text of its own candidate responses.
OwnJwt(tr) == ToText(pickToken(tr[3].val))
OwnUserdata(tr) == Stringify(Or(Resolved(tr), EmptyObj))

\* C19: with submissions overlapping in every possible way, the redirect of
\* each attempt carries the token extracted from that attempt's own
\* authentication response and the profile resolved by that attempt's own
\* candidate requests, which carried that token, or {} when it resolved
\* none; where another attempt in flight at the same time has a different
\* token or profile, the redirect carries neither.
C19_RedirectStemsFromOwnAttempt ==
  \A a \in Slots : \A i \in 1..Len(trace[a]) :
    LET tr == trace[a]
    IN IsRedirect(tr[i]) =>
         /\ i = Len(tr) /\ i > 3 /\ IsLoginBody(tr[3])
         /\ token[a] = pickToken(tr[3].val)
         /\ profile[a] = Resolved(tr)
         /\ Param(tr[i].url, "jwt") = OwnJwt(tr)
         /\ Param(tr[i].url, "userdata") = OwnUserdata(tr)
         /\ \A k \in 1..Len(tr) : IsCandFetch(tr[k]) => tr[k].auth = "Bearer " \o OwnJwt(tr)
         /\ \A b \in Slots \ {a} : Extracted(b) =>
              /\ OwnJwt(trace[b]) # OwnJwt(tr) =>
                   Param(tr[i].url, "jwt") # OwnJwt(trace[b])
              /\ OwnUserdata(trace[b]) # OwnUserdata(tr) =>
                   Param(tr[i].url, "userdata") # OwnUserdata(trace[b])

\* C19 witness: two attempts that overlapped have both redirected, with
\* different tokens and different profiles; the storage holds the token of
\* the one and the page location is the redirect of the other.
C19_Witness ==
  \E a \in Slots, b \in Slots :
    /\ a # b
    /\ pc[a] = "Success" /\ pc[b] = "Success"
    /\ token[a] = Str("T1") /\ token[b] = Str("T2")
    /\ Truthy(profile[a]) /\ profile[b] = Null
    /\ localStorage.jwt = Str("T1")
    /\ localStorage.userdata = Str(Stringify(profile[a]))
    /\ Param(href, "jwt") = "T2"
    /\ Param(href, "userdata") = "{}"

====
